---- MODULE Spec2Model ----
(***************************************************************************)
(* Model of brbt, a left-leaning red-black tree whose nodes live in an     *)
(* arena of two parallel arrays (payload "ptr", bookkeeping "bk").         *)
(* Every C function of the engine is an operator that takes the machine    *)
(* state t (the fields of struct brbt, plus the execution status) and      *)
(* returns the state it leaves behind, statement by statement:             *)
(* Let([x \in {e} |-> rest]) reads "x = e; rest".                          *)
(*                                                                         *)
(* Conventions                                                             *)
(*  - unsigned words are written in their two's-complement reading, so     *)
(*    (unsigned)-1 is -1 and 0 - 1 wraps to -1;                            *)
(*  - t.abort is 0 while running, and the source line of the failed        *)
(*    assert once the policy's abort hook has been invoked (the hook does  *)
(*    not return: it terminates or leaves non-locally);                    *)
(*  - t.undef is "" while running, and names the undefined operation       *)
(*    (call through a null pointer, access outside the arrays, read of     *)
(*    the inactive union member or of an unwritten payload, unbounded      *)
(*    loop) once one has been executed; the run ends there;                *)
(*  - t.calls lists the callbacks invoked by the operation in progress,    *)
(*    and t.seen what each of them finds in the slot it is called with.    *)
(***************************************************************************)
EXTENDS Integers, Sequences, FiniteSets

MaxKey == 4
MaxCap == 4
MaxDel == 2
MaxClear == 1
MaxMin == 2
\* the largest arena the resize callback hands out in the scenario of seven keys
ScenCap == 8
\* the keys and the arena of the runs that build trees of six nodes
TallKey == 7
TallCap == 6

NIL == -1
UNSET == -2
UNINIT == 0

Keys == 1..MaxKey
\* record contents besides the key: two values tell an overwritten record
\* from one left alone
Vals == {0, 1}

Records == [key : Keys, val : Vals]

\* the stock policy, a bounded cache policy, and the degenerate ones
Policies ==
  { [resize |-> TRUE,  select |-> FALSE, insert_hook |-> FALSE, remove_hook |-> FALSE],
    [resize |-> FALSE, select |-> TRUE,  insert_hook |-> TRUE,  remove_hook |-> TRUE],
    [resize |-> FALSE, select |-> FALSE, insert_hook |-> FALSE, remove_hook |-> FALSE],
    [resize |-> TRUE,  select |-> TRUE,  insert_hook |-> TRUE,  remove_hook |-> TRUE] }

Types == { [deleter |-> TRUE], [deleter |-> FALSE] }

(***************************************************************************)
(* Execution status and unsigned arithmetic                                *)
(***************************************************************************)
Halted(t) == t.abort # 0 \/ t.undef # ""

Abort(t, line) == IF Halted(t) THEN t ELSE [t EXCEPT !.abort = line]

Undef(t, what) == IF Halted(t) THEN t ELSE [t EXCEPT !.undef = what]

expect(t, cond, line) == IF cond THEN t ELSE Abort(t, line)

\* what a callback called with index n finds there: the record, the
\* colour or free-list link, and whether the slot heads the free list
View(t, n) ==
  IF n >= 0 /\ n < t.capacity
    THEN [rec |-> t.ptr[n], u |-> t.bk[n].u, head |-> (t.first_free = n)]
    ELSE [rec |-> [key |-> UNINIT, val |-> UNINIT],
          u |-> [tag |-> "nf", v |-> NIL], head |-> FALSE]

Call(t, f, n) ==
  IF Halted(t) THEN t
  ELSE [t EXCEPT !.calls = Append(@, [f |-> f, n |-> n]),
                 !.seen = Append(@, View(t, n))]

Ret(t, v) == [t |-> t, v |-> v]

\* sequencing: Let([x \in {e} |-> rest]) is rest with x the value of e, which
\* is computed once
Let(F) == CHOOSE y \in { g[CHOOSE d \in DOMAIN g : TRUE] : g \in {F} } : TRUE

Dec(x) == x - 1

Inc(x) == x + 1

ULt(a, b) == IF (a >= 0) = (b >= 0) THEN a < b ELSE b < 0

InArena(t, idx) == idx >= 0 /\ idx < t.capacity

(***************************************************************************)
(* Bookkeeping access: get_bk and the left/right/col/nextfree macros.      *)
(* next_free and red share storage; a slot holds whichever was written     *)
(* last, tagged "nf" or "red".                                             *)
(***************************************************************************)
get_bk(t, idx) ==
  IF Halted(t) THEN t
  ELSE IF idx = NIL THEN Abort(t, 573)
  ELSE IF ~InArena(t, idx) THEN Undef(t, "range")
  ELSE t

left(t, x) ==
  LET g == get_bk(t, x)
  IN IF Halted(g) THEN Ret(g, NIL) ELSE Ret(g, t.bk[x].left)

right(t, x) ==
  LET g == get_bk(t, x)
  IN IF Halted(g) THEN Ret(g, NIL) ELSE Ret(g, t.bk[x].right)

col(t, x) ==
  LET g == get_bk(t, x)
  IN IF Halted(g) THEN Ret(g, FALSE)
     ELSE IF t.bk[x].u.tag # "red" THEN Ret(Undef(g, "union"), FALSE)
     ELSE Ret(g, t.bk[x].u.v = 1)

nextfree(t, x) ==
  LET g == get_bk(t, x)
  IN IF Halted(g) THEN Ret(g, NIL)
     ELSE IF t.bk[x].u.tag # "nf" THEN Ret(Undef(g, "union"), NIL)
     ELSE Ret(g, t.bk[x].u.v)

set_left(t, x, v) ==
  LET g == get_bk(t, x)
  IN IF Halted(g) THEN g ELSE [g EXCEPT !.bk[x].left = v]

set_right(t, x, v) ==
  LET g == get_bk(t, x)
  IN IF Halted(g) THEN g ELSE [g EXCEPT !.bk[x].right = v]

set_col(t, x, b) ==
  LET g == get_bk(t, x)
  IN IF Halted(g) THEN g
     ELSE [g EXCEPT !.bk[x].u = [tag |-> "red", v |-> IF b THEN 1 ELSE 0]]

set_nextfree(t, x, v) ==
  LET g == get_bk(t, x)
  IN IF Halted(g) THEN g ELSE [g EXCEPT !.bk[x].u = [tag |-> "nf", v |-> v]]

set_first_free(t, v) == IF Halted(t) THEN t ELSE [t EXCEPT !.first_free = v]

set_size(t, v) == IF Halted(t) THEN t ELSE [t EXCEPT !.size = v]

set_root(t, v) == IF Halted(t) THEN t ELSE [t EXCEPT !.root = v]

\* brbt_get: the address of record idx; reading or writing it outside the
\* arrays is undefined
brbt_get(t, idx) ==
  IF Halted(t) THEN t
  ELSE IF idx = NIL THEN Abort(t, 591)
  ELSE IF ~InArena(t, idx) THEN Undef(t, "range")
  ELSE t

\* __builtin_memcpy(brbt_get(tree, node), data, membs)
memcpy(t, node, data) ==
  LET g == brbt_get(t, node)
  IN IF Halted(g) THEN g ELSE [g EXCEPT !.ptr[node] = data]

(***************************************************************************)
(* brbt_create                                                             *)
(***************************************************************************)
brbt_create ==
  [ ptr        |-> <<>>,
    bk         |-> <<>>,
    size       |-> 0,
    capacity   |-> 0,
    first_free |-> 0,
    root       |-> NIL,
    abort      |-> 0,
    undef      |-> "",
    calls      |-> <<>>,
    seen       |-> <<>> ]

(***************************************************************************)
(* Free-list allocator                                                     *)
(***************************************************************************)
\* node_free that links the released slot behind the head of a non-empty
\* free list
node_free_behind_head(t, h, env) ==
  Let([t1 \in {set_size(t, Dec(t.size))} |->
  Let([t2 \in {IF env.type.deleter THEN Call(t1, "deleter", h) ELSE t1} |->
  Let([t3 \in {IF env.policy.remove_hook THEN Call(t2, "remove_hook", h) ELSE t2} |->
    IF t3.first_free = NIL
      THEN Let([t4 \in {set_first_free(t3, h)} |-> set_nextfree(t4, h, NIL)])
      ELSE Let([nf \in {nextfree(t3, t3.first_free)} |->
           Let([t4 \in {set_nextfree(nf.t, h, nf.v)} |->
             set_nextfree(t4, t3.first_free, h)])])])])])

node_free(t, h, env) ==
  Let([t1 \in {set_size(t, Dec(t.size))} |->
  Let([t2 \in {IF env.type.deleter THEN Call(t1, "deleter", h) ELSE t1} |->
  Let([t3 \in {IF env.policy.remove_hook THEN Call(t2, "remove_hook", h) ELSE t2} |->
    IF t3.first_free = NIL
      THEN Let([t4 \in {set_first_free(t3, h)} |-> set_nextfree(t4, h, NIL)])
      ELSE Let([t4 \in {set_nextfree(t3, h, t3.first_free)} |-> set_first_free(t4, h)])])])])

\* the policy's resize callback followed by lines 664-680: both arrays are
\* reallocated to env.newcap slots, old slots keep their contents, each new
\* slot is chained to the next one
grow(t, env) ==
  LET old_cap == t.capacity
      new_cap == env.newcap
  IN IF Halted(t) THEN t
     ELSE [Call(t, "resize", new_cap) EXCEPT
             !.capacity = new_cap,
             !.ptr = [i \in 0..(new_cap - 1) |->
                        IF i < old_cap THEN t.ptr[i]
                        ELSE [key |-> UNINIT, val |-> UNINIT]],
             !.bk = [i \in 0..(new_cap - 1) |->
                        IF i < old_cap THEN t.bk[i]
                        ELSE [left |-> NIL, right |-> NIL,
                              u |-> [tag |-> "nf",
                                     v |-> IF ULt(i, Dec(new_cap)) THEN i + 1 ELSE NIL]]]]

\* node_alloc counting the new node before it looks for a slot
node_alloc_counting_first(t, env) ==
  Let([t0 \in {set_size(t, Inc(t.size))} |->
  Let([t1 \in {IF ~ULt(t.size, t.capacity)
        THEN IF env.policy.resize
               THEN grow(t0, env)
               ELSE Let([a \in {expect(t0, env.policy.select, 688)} |->
                    Let([b \in {Call(a, "select", env.victim)} |->
                      node_free(b, env.victim, env)])])
        ELSE t0} |->
  Let([nf \in {nextfree(t1, t1.first_free)} |->
    Ret(set_first_free(nf.t, nf.v), t1.first_free)])])])

node_alloc(t, env) ==
  Let([t1 \in {IF ~ULt(t.size, t.capacity)
        THEN IF env.policy.resize
               THEN grow(t, env)
               ELSE Let([a \in {expect(t, env.policy.select, 688)} |->
                    Let([b \in {Call(a, "select", env.victim)} |->
                      node_free(b, env.victim, env)])])
        ELSE t} |->
  Let([t2 \in {set_size(t1, Inc(t1.size))} |->
  \* brbt_node h = tree->first_free; tree->first_free = nextfree(h);
  Let([nf \in {nextfree(t2, t2.first_free)} |->
    Ret(set_first_free(nf.t, nf.v), t2.first_free)])])])

(***************************************************************************)
(* Comparison, colours, rotations                                          *)
(***************************************************************************)
cmp(a, b) == IF a < b THEN -1 ELSE IF a > b THEN 1 ELSE 0

compare(t, node, key) ==
  Let([a \in {expect(t, node # NIL, 758)} |->
  Let([g \in {brbt_get(a, node)} |->
    IF Halted(g) THEN Ret(g, 0)
    ELSE IF g.ptr[node].key = UNINIT THEN Ret(Undef(g, "uninit"), 0)
    ELSE Ret(g, cmp(key, g.ptr[node].key))])])

is_red(t, node) ==
  IF Halted(t) \/ node = NIL THEN Ret(t, FALSE) ELSE col(t, node)

\* assert(h); assert(is_red(right(h))); v is right(h)
red_right_of(t, h, line) ==
  Let([a \in {expect(t, h # NIL, line)} |->
  Let([r \in {right(a, h)} |->
  Let([c \in {is_red(r.t, r.v)} |->
    Ret(expect(c.t, c.v, line + 1), r.v)])])])

\* assert(h); assert(is_red(left(h))); v is left(h)
red_left_of(t, h, line) ==
  Let([a \in {expect(t, h # NIL, line)} |->
  Let([l \in {left(a, h)} |->
  Let([c \in {is_red(l.t, l.v)} |->
    Ret(expect(c.t, c.v, line + 1), l.v)])])])

\* col(x) = col(h); col(h) = true;
take_colour(t, h, x) ==
  Let([ch \in {col(t, h)} |->
  Let([t3 \in {set_col(ch.t, x, ch.v)} |->
    set_col(t3, h, TRUE)])])

\* rotate_left without "left(x) = h": h drops out of the tree
rotate_left_unlinked(t, h) ==
  Let([x \in {red_right_of(t, h, 785)} |->
  Let([lx \in {left(x.t, x.v)} |->
  Let([t1 \in {set_right(lx.t, h, lx.v)} |->
  Let([t4 \in {take_colour(t1, h, x.v)} |->
    Ret(t4, IF Halted(t4) THEN h ELSE x.v)])])])])

rotate_left(t, h) ==
  \* assert(is_red(right(h)));
  Let([x \in {red_right_of(t, h, 785)} |->
  \* x = right(h); right(h) = left(x);
  Let([lx \in {left(x.t, x.v)} |->
  Let([t1 \in {set_right(lx.t, h, lx.v)} |->
  \* left(x) = h;
  Let([t2 \in {set_left(t1, x.v, h)} |->
  \* col(x) = col(h); col(h) = true;
  Let([t4 \in {take_colour(t2, h, x.v)} |->
    Ret(t4, IF Halted(t4) THEN h ELSE x.v)])])])])])

rotate_right(t, h) ==
  \* assert(is_red(left(h)));
  Let([x \in {red_left_of(t, h, 800)} |->
  \* x = left(h); left(h) = right(x);
  Let([rx \in {right(x.t, x.v)} |->
  Let([t1 \in {set_left(rx.t, h, rx.v)} |->
  \* right(x) = h;
  Let([t2 \in {set_right(t1, x.v, h)} |->
  \* col(x) = col(h); col(h) = true;
  Let([t4 \in {take_colour(t2, h, x.v)} |->
    Ret(t4, IF Halted(t4) THEN h ELSE x.v)])])])])])

\* col(x) = !col(x)
toggle(t, x) ==
  Let([c \in {col(t, x)} |-> set_col(c.t, x, ~c.v)])

color_flip(t, node) ==
  Let([a \in {expect(t, node # NIL, 818)} |->
  Let([t1 \in {toggle(a, node)} |->
  Let([l \in {left(t1, node)} |->
  Let([t2 \in {IF l.v # NIL THEN toggle(l.t, l.v) ELSE l.t} |->
  Let([r \in {right(t2, node)} |->
    IF r.v # NIL THEN toggle(r.t, r.v) ELSE r.t])])])])])

\* is_red(left(left(h))), the inner left() going through get_bk
is_red_left_left(t, h) ==
  Let([l \in {left(t, h)} |->
  Let([ll \in {left(l.t, l.v)} |->
    is_red(ll.t, ll.v)])])

is_red_left(t, h) ==
  Let([l \in {left(t, h)} |-> is_red(l.t, l.v)])

is_red_right(t, h) ==
  Let([r \in {right(t, h)} |-> is_red(r.t, r.v)])

\* if (is_red(right(h)) && !is_red(left(h))) h = rotl(h);
fix_right_red(t, h) ==
  Let([c1r \in {is_red_right(t, h)} |->
  Let([c1l \in {IF c1r.v THEN is_red_left(c1r.t, h) ELSE Ret(c1r.t, TRUE)} |->
    IF c1r.v /\ ~c1l.v THEN rotate_left(c1l.t, h) ELSE Ret(c1l.t, h)])])

\* if (is_red(left(h)) && is_red(left(left(h)))) h = rotr(h);
fix_left_run(t, h) ==
  Let([c2a \in {is_red_left(t, h)} |->
  Let([c2b \in {IF c2a.v THEN is_red_left_left(c2a.t, h) ELSE Ret(c2a.t, FALSE)} |->
    IF c2a.v /\ c2b.v THEN rotate_right(c2b.t, h) ELSE Ret(c2b.t, h)])])

\* if (is_red(left(h)) && is_red(right(h))) color_flip(h);
fix_two_red(t, h) ==
  Let([c3a \in {is_red_left(t, h)} |->
  Let([c3b \in {IF c3a.v THEN is_red_right(c3a.t, h) ELSE Ret(c3a.t, FALSE)} |->
    IF c3a.v /\ c3b.v THEN color_flip(c3b.t, h) ELSE c3b.t])])

\* fixup without its third step, the colour flip of a node with two red
\* children
fixup_without_color_flip(t, h) ==
  Let([a \in {expect(t, h # NIL, 855)} |->
  Let([s1 \in {fix_right_red(a, h)} |->
    fix_left_run(s1.t, s1.v)])])

fixup(t, h) ==
  Let([a \in {expect(t, h # NIL, 855)} |->
  \* if (is_red(right(h)) && !is_red(left(h))) h = rotl(h);
  Let([s1 \in {fix_right_red(a, h)} |->
  \* if (is_red(left(h)) && is_red(left(left(h)))) h = rotr(h);
  Let([s2 \in {fix_left_run(s1.t, s1.v)} |->
  \* if (is_red(left(h)) && is_red(right(h))) color_flip(h);
  Let([s3 \in {fix_two_red(s2.t, s2.v)} |->
    Ret(s3, s2.v)])])])])

(***************************************************************************)
(* Insertion                                                               *)
(***************************************************************************)
\* new_node with the insert hook fired right after the allocation
new_node_hook_first(t, data_in, env) ==
  Let([n \in {node_alloc(t, env)} |->
  Let([t0 \in {IF env.policy.insert_hook THEN Call(n.t, "insert_hook", n.v) ELSE n.t} |->
  Let([t1 \in {set_col(t0, n.v, TRUE)} |->
  Let([t2 \in {set_left(t1, n.v, NIL)} |->
  Let([t3 \in {set_right(t2, n.v, NIL)} |->
  Let([t4 \in {memcpy(t3, n.v, data_in)} |->
    Ret(t4, n.v)])])])])])])

new_node(t, data_in, env) ==
  Let([n \in {node_alloc(t, env)} |->
  Let([t1 \in {set_col(n.t, n.v, TRUE)} |->
  Let([t2 \in {set_left(t1, n.v, NIL)} |->
  Let([t3 \in {set_right(t2, n.v, NIL)} |->
  Let([t4 \in {memcpy(t3, n.v, data_in)} |->
    Ret(IF env.policy.insert_hook THEN Call(t4, "insert_hook", n.v) ELSE t4, n.v)])])])])])

\* the deleter is called through the pointer without a null test (line 883)
replace_value(t, node, data, env) ==
  Let([t1 \in {IF env.type.deleter THEN Call(t, "deleter", node)
                          ELSE Undef(t, "null deleter")} |->
    memcpy(t1, node, data)])

\* compare(node, key) and, for a key that differs, the read of the child on
\* the key's side: c is the comparison and next the child
insert_side(t, node, key) ==
  Let([c \in {compare(t, node, key)} |->
  Let([ch \in {IF Halted(c.t) \/ c.v = 0 THEN Ret(c.t, NIL)
               ELSE IF c.v < 0 THEN left(c.t, node) ELSE right(c.t, node)} |->
    [t |-> ch.t, c |-> c.v, stop |-> Halted(c.t), next |-> ch.v]])])

\* left(node) = <subtree r> or right(node) = <subtree r>, by the sign of c,
\* and return fixup(node);
insert_link(r, node, c) ==
  Let([t1 \in {IF c < 0 THEN set_left(r.t, node, r.v)
               ELSE set_right(r.t, node, r.v)} |->
  Let([f \in {fixup(t1, node)} |->
    [t |-> f.t, v |-> f.v, out |-> r.out]])])

\* returns the subtree root in v and the value stored through insert_out
\* in out (UNSET when the call did not store one)
RECURSIVE insert_impl(_, _, _, _, _, _)
insert_impl(t, node, data, replace, env, fuel) ==
  IF Halted(t) THEN [t |-> t, v |-> node, out |-> UNSET]
  ELSE IF fuel = 0 THEN [t |-> Undef(t, "loop"), v |-> node, out |-> UNSET]
  ELSE IF node = NIL
    THEN Let([n \in {new_node(t, data, env)} |->
           [t |-> n.t, v |-> n.v, out |-> IF Halted(n.t) THEN UNSET ELSE n.v]])
  ELSE
    Let([s \in {insert_side(t, node, data.key)} |->
      IF s.stop THEN [t |-> s.t, v |-> node, out |-> UNSET]
      ELSE IF s.c = 0
        THEN Let([t1 \in {IF replace THEN replace_value(s.t, node, data, env) ELSE s.t} |->
             Let([f \in {fixup(t1, node)} |->
               [t |-> f.t, v |-> f.v, out |-> UNSET]])])
      ELSE Let([r \in {insert_impl(s.t, s.next, data, replace, env, fuel - 1)} |->
             insert_link(r, node, s.c)])])

Fuel(t) == 2 * t.capacity + 4

\* brbt_insert passing replace = true whatever the caller asked for
brbt_insert_replacing(t, node_in, replace, env) ==
  Let([r \in {insert_impl(t, t.root, node_in, TRUE, env, Fuel(t))} |->
    Ret(set_root(r.t, r.v), r.out)])

\* v is the value of the local "out" at the return statement; it is UNSET
\* when insert_impl stored nothing through insert_out
brbt_insert(t, node_in, replace, env) ==
  Let([r \in {insert_impl(t, t.root, node_in, replace, env, Fuel(t))} |->
    Ret(set_root(r.t, r.v), r.out)])

(***************************************************************************)
(* Search                                                                  *)
(***************************************************************************)
DIVERGES == -3

RECURSIVE find_loop(_, _, _, _)
find_loop(t, current_node, key, fuel) ==
  IF current_node = NIL THEN NIL
  ELSE IF fuel = 0 THEN DIVERGES
  ELSE Let([c \in {compare(t, current_node, key)} |->
         IF Halted(c.t) THEN DIVERGES
         ELSE IF c.v > 0
           THEN Let([n \in {t.bk[current_node].right} |-> find_loop(t, n, key, fuel - 1)])
         ELSE IF c.v < 0
           THEN Let([n \in {t.bk[current_node].left} |-> find_loop(t, n, key, fuel - 1)])
         ELSE current_node])

\* the index brbt_find returns for key in state t, whatever the execution
\* status: the arena is read as it was left
brbt_find(t, key) ==
  Let([a \in {[t EXCEPT !.abort = 0, !.undef = ""]} |->
    find_loop(a, a.root, key, Fuel(a))])

(***************************************************************************)
(* Deletion                                                                *)
(***************************************************************************)
RECURSIVE minimum_loop(_, _, _)
minimum_loop(t, node, fuel) ==
  Let([l \in {left(t, node)} |->
    IF Halted(l.t) THEN Ret(l.t, node)
    ELSE IF l.v = NIL THEN Ret(l.t, node)
    ELSE IF fuel = 0 THEN Ret(Undef(t, "loop"), node)
    ELSE minimum_loop(l.t, l.v, fuel - 1)])

\* brbt_minimum without the descent along left links
brbt_minimum_no_descent(t, node) ==
  Let([a \in {expect(t, node # NIL, 931)} |->
    Ret(a, node)])

brbt_minimum(t, node) ==
  Let([a \in {expect(t, node # NIL, 931)} |->
    IF Halted(a) THEN Ret(a, node) ELSE minimum_loop(a, node, Fuel(a))])

\* !is_red(left(h)) && !is_red(left(left(h)))
both_black_left(t, h) ==
  Let([a \in {is_red_left(t, h)} |->
  Let([b \in {IF a.v THEN Ret(a.t, TRUE) ELSE is_red_left_left(a.t, h)} |->
    Ret(b.t, ~a.v /\ ~b.v)])])

\* is_red(left(right(h)))
is_red_right_left(t, h) ==
  Let([r \in {right(t, h)} |->
  Let([rl \in {left(r.t, r.v)} |->
    is_red(rl.t, rl.v)])])

\* !is_red(right(h)) && !is_red(left(right(h)))
both_black_right(t, h) ==
  Let([a \in {is_red_right(t, h)} |->
  Let([b \in {IF a.v THEN Ret(a.t, TRUE) ELSE is_red_right_left(a.t, h)} |->
    Ret(b.t, ~a.v /\ ~b.v)])])

\* move_red_left that rotates whatever the colour of left(right(h))
move_red_left_rotating_always(t, h) ==
  Let([a \in {expect(t, h # NIL, 943)} |->
  Let([t1 \in {color_flip(a, h)} |->
  Let([r \in {right(t1, h)} |->
    IF Halted(r.t) \/ r.v = NIL THEN Ret(r.t, h)
    ELSE Let([rr \in {rotate_right(r.t, r.v)} |->
         Let([t2 \in {set_right(rr.t, h, rr.v)} |->
         Let([rl \in {rotate_left(t2, h)} |->
         Let([t3 \in {color_flip(rl.t, rl.v)} |->
           Ret(t3, IF Halted(t3) THEN h ELSE rl.v)])])])])])])])

move_red_left(t, h) ==
  Let([a \in {expect(t, h # NIL, 943)} |->
  Let([t1 \in {color_flip(a, h)} |->
  \* if (right(h) != BRBT_NIL && is_red(left(right(h))))
  Let([r \in {right(t1, h)} |->
  Let([c \in {IF r.v # NIL THEN is_red_right_left(r.t, h) ELSE Ret(r.t, FALSE)} |->
    IF Halted(c.t) \/ ~c.v THEN Ret(c.t, h)
    ELSE \* right(h) = rotr(right(h)); h = rotl(h); color_flip(h);
         Let([rr \in {rotate_right(c.t, r.v)} |->
         Let([t2 \in {set_right(rr.t, h, rr.v)} |->
         Let([rl \in {rotate_left(t2, h)} |->
         Let([t3 \in {color_flip(rl.t, rl.v)} |->
           Ret(t3, IF Halted(t3) THEN h ELSE rl.v)])])])])])])])])

move_red_right(t, h) ==
  Let([a \in {expect(t, h # NIL, 960)} |->
  Let([t1 \in {color_flip(a, h)} |->
  \* if (left(h) != BRBT_NIL && is_red(left(left(h))))
  Let([l \in {left(t1, h)} |->
  Let([c \in {IF l.v # NIL THEN is_red_left_left(l.t, h) ELSE Ret(l.t, FALSE)} |->
    IF Halted(c.t) \/ ~c.v THEN Ret(c.t, h)
    ELSE \* h = rotr(h); color_flip(h);
         Let([rr \in {rotate_right(c.t, h)} |->
         Let([t2 \in {color_flip(rr.t, rr.v)} |->
           Ret(t2, IF Halted(t2) THEN h ELSE rr.v)])])])])])])

\* if (!is_red(left(h)) && !is_red(left(left(h)))) h = move_red_left(h);
\* v is h after the statement
red_to_left(t, h) ==
  Let([c \in {both_black_left(t, h)} |->
    IF c.v THEN move_red_left(c.t, h) ELSE Ret(c.t, h)])

\* the statement above followed by the read of left(h): v is h and next is
\* left(h)
descend_left(t, h) ==
  Let([m \in {red_to_left(t, h)} |->
  Let([l \in {left(m.t, m.v)} |->
    [t |-> l.t, v |-> m.v, next |-> l.v]])])

\* left(h) = <subtree d>; return fixup(h); as seen by a caller that was
\* entered with h0
relink_left(d, h, h0) ==
  Let([t1 \in {set_left(d.t, h, d.v)} |->
  Let([f \in {fixup(t1, h)} |->
    IF Halted(f.t) THEN Ret(f.t, h0) ELSE f])])

RECURSIVE delete_min_impl(_, _, _, _, _)
delete_min_impl(t, h, free_node, env, fuel) ==
  IF Halted(t) THEN Ret(t, h)
  ELSE IF h = NIL THEN Ret(t, 0)
  ELSE IF fuel = 0 THEN Ret(Undef(t, "loop"), h)
  ELSE
    Let([l \in {left(t, h)} |->
      IF Halted(l.t) THEN Ret(l.t, h)
      ELSE IF l.v = NIL
        THEN Ret(IF free_node THEN node_free(l.t, h, env) ELSE l.t, NIL)
      ELSE
        \* if (!is_red(left(h)) && !is_red(left(left(h)))) h = move_red_left(h);
        Let([m \in {descend_left(l.t, h)} |->
        \* left(h) = delete_min_impl(tree, left(h), free_node);
        Let([d \in {delete_min_impl(m.t, m.next, free_node, env, fuel - 1)} |->
          relink_left(d, m.v, h)])])])

\* the splice with delete_min_impl told to free the node it unlinks
splice_freeing_successor(t, h, env, fuel) ==
  Let([r \in {right(t, h)} |->
  Let([mn \in {brbt_minimum(r.t, r.v)} |->
  Let([d \in {delete_min_impl(mn.t, r.v, TRUE, env, fuel)} |->
  Let([t1 \in {set_right(d.t, h, d.v)} |->
  Let([lh \in {left(t1, h)} |->
  Let([t2 \in {set_left(lh.t, mn.v, lh.v)} |->
  Let([rh \in {right(t2, h)} |->
  Let([t3 \in {set_right(rh.t, mn.v, rh.v)} |->
  Let([t4 \in {node_free(t3, h, env)} |->
    IF Halted(t4) THEN Ret(t4, h) ELSE Ret(t4, mn.v)])])])])])])])])])

\* lines 1035-1041: the node h holds the key; its in-order successor takes
\* its place
splice(t, h, env, fuel) ==
  \* brbt_node min = brbt_minimum(tree, right(h));
  Let([r \in {right(t, h)} |->
  Let([mn \in {brbt_minimum(r.t, r.v)} |->
  \* right(h) = delete_min_impl(tree, right(h), false);
  Let([d \in {delete_min_impl(mn.t, r.v, FALSE, env, fuel)} |->
  Let([t1 \in {set_right(d.t, h, d.v)} |->
  \* left(min) = left(h);
  Let([lh \in {left(t1, h)} |->
  Let([t2 \in {set_left(lh.t, mn.v, lh.v)} |->
  \* right(min) = right(h);
  Let([rh \in {right(t2, h)} |->
  Let([t3 \in {set_right(rh.t, mn.v, rh.v)} |->
  \* node_free(tree, h); h = min;
  Let([t4 \in {node_free(t3, h, env)} |->
    IF Halted(t4) THEN Ret(t4, h) ELSE Ret(t4, mn.v)])])])])])])])])])

\* if (is_red(left(h))) h = rotr(h);
red_to_top(t, h) ==
  Let([rl \in {is_red_left(t, h)} |->
    IF rl.v THEN rotate_right(rl.t, h) ELSE Ret(rl.t, h)])

\* compare(h, key) == 0 && (right(h) == BRBT_NIL)
at_bottom(t, h, key) ==
  Let([c1 \in {compare(t, h, key)} |->
  Let([r1 \in {IF c1.v = 0 THEN right(c1.t, h) ELSE Ret(c1.t, 0)} |->
    Ret(r1.t, c1.v = 0 /\ r1.v = NIL)])])

\* if (!is_red(right(h)) && !is_red(left(right(h)))) h = move_red_right(h);
\* v is h after the statement
red_to_right(t, h) ==
  Let([c \in {both_black_right(t, h)} |->
    IF c.v THEN move_red_right(c.t, h) ELSE Ret(c.t, h)])

\* the statement above followed by compare(h, key) and the read of right(h)
\* that the branch not taken by the key makes: v is h, here says whether h
\* holds the key and next is right(h)
descend_right(t, h, key) ==
  Let([m \in {red_to_right(t, h)} |->
  Let([c2 \in {compare(m.t, m.v, key)} |->
  Let([r \in {IF c2.v = 0 THEN Ret(c2.t, NIL) ELSE right(c2.t, m.v)} |->
    [t |-> r.t, v |-> m.v, here |-> c2.v = 0, next |-> r.v]])])])

\* return fixup(h); as seen by a caller that was entered with h0
fixup_from(s, h0) ==
  Let([f \in {fixup(s.t, s.v)} |->
    IF Halted(f.t) THEN Ret(f.t, h0) ELSE f])

RECURSIVE delete_impl(_, _, _, _, _)
delete_impl(t, h, key, env, fuel) ==
  IF Halted(t) THEN Ret(t, h)
  ELSE IF h = NIL THEN Ret(t, 0)
  ELSE IF fuel = 0 THEN Ret(Undef(t, "loop"), h)
  ELSE
    Let([c0 \in {compare(t, h, key)} |->
      IF Halted(c0.t) THEN Ret(c0.t, h)
      ELSE IF c0.v < 0
        THEN \* if (!is_red(left(h)) && !is_red(left(left(h)))) h = move_red_left(h);
             Let([m \in {descend_left(c0.t, h)} |->
             \* left(h) = del(left(h), key);
             Let([d \in {delete_impl(m.t, m.next, key, env, fuel - 1)} |->
               relink_left(d, m.v, h)])])
      ELSE
        \* if (is_red(left(h))) h = rotr(h);
        Let([a \in {red_to_top(c0.t, h)} |->
        \* if (compare(h, key) == 0 && (right(h) == BRBT_NIL))
        Let([e \in {at_bottom(a.t, a.v, key)} |->
          IF Halted(e.t) THEN Ret(e.t, h)
          ELSE IF e.v
            THEN Let([nf \in {node_free(e.t, a.v, env)} |->
                   IF Halted(nf) THEN Ret(nf, h) ELSE Ret(nf, NIL)])
          ELSE
            \* if (!is_red(right(h)) && !is_red(left(right(h)))) h = move_red_right(h);
            Let([m \in {descend_right(e.t, a.v, key)} |->
              IF m.here
                THEN Let([s \in {splice(m.t, m.v, env, fuel - 1)} |->
                       fixup_from(s, h)])
                ELSE \* right(h) = del(right(h), key);
                     Let([d \in {delete_impl(m.t, m.next, key, env, fuel - 1)} |->
                     Let([t1 \in {set_right(d.t, m.v, d.v)} |->
                       fixup_from(Ret(t1, m.v), h)])])])])])])

\* brbt_delete that returns without touching the tree
brbt_delete_nothing(t, key, env) == t

brbt_delete(t, key, env) ==
  Let([d \in {delete_impl(t, t.root, key, env, Fuel(t))} |->
    set_root(d.t, d.v)])

\* brbt_delete_min: the subtree root delete_min_impl returns is dropped
brbt_delete_min(t, node, env) ==
  Let([n \in {IF node = NIL THEN t.root ELSE node} |->
  Let([d \in {delete_min_impl(t, n, TRUE, env, Fuel(t))} |->
    d.t])])

(***************************************************************************)
(* Traversal, clear, destroy                                               *)
(***************************************************************************)
StackDepth == 32

\* the visitor of a caller: it is told the index and leaves the tree alone
visit(t, node) == Call(t, "visit", node)

clear_iterator(t, node, env) == node_free(t, node, env)

\* one turn of the while loop of brbt_iterate; stack[1..si] are the live
\* entries
iterate_step(t, stack, iterate, env) ==
  Let([si \in {Len(stack)} |->
  Let([state \in {stack[si]} |->
    IF state.node = NIL
      THEN [t |-> t, stack |-> SubSeq(stack, 1, si - 1)]
    ELSE IF state.state = "LHS"
      THEN Let([lhs \in {left(t, state.node)} |->
             IF si >= StackDepth
               THEN [t |-> Undef(lhs.t, "stack"), stack |-> stack]
               ELSE [t |-> lhs.t,
                     stack |-> Append([stack EXCEPT ![si].state = "SELF"],
                                      [node |-> lhs.v, state |-> "LHS"])]])
    ELSE Let([t1 \in {IF iterate = "clear_iterator"
                        THEN clear_iterator(t, state.node, env)
                        ELSE visit(t, state.node)} |->
         Let([r \in {right(t1, state.node)} |->
           [t |-> r.t,
            stack |-> [stack EXCEPT ![si] = [node |-> r.v, state |-> "LHS"]]]])])])])

\* while (si > 0)
RECURSIVE iterate_loop(_, _, _, _, _)
iterate_loop(t, stack, iterate, env, fuel) ==
  IF Halted(t) \/ Len(stack) = 0 THEN t
  ELSE IF fuel = 0 THEN Undef(t, "loop")
  ELSE Let([s \in {iterate_step(t, stack, iterate, env)} |->
         iterate_loop(s.t, s.stack, iterate, env, fuel - 1)])

\* brbt_iterate with the first stack entry in state SELF: the left subtree
\* of the root is never entered
brbt_iterate_self_first(t, iterate, env) ==
  IF Halted(t) \/ t.size = 0 THEN t
  ELSE iterate_loop(t, <<[node |-> t.root, state |-> "SELF"]>>, iterate, env,
                    4 * t.capacity + 4)

brbt_iterate(t, iterate, env) ==
  IF Halted(t) \/ t.size = 0 THEN t
  ELSE iterate_loop(t, <<[node |-> t.root, state |-> "LHS"]>>, iterate, env,
                    4 * t.capacity + 4)

brbt_clear(t, env) ==
  IF Halted(t) \/ t.size = 0 THEN t
  ELSE Let([t1 \in {brbt_iterate(t, "clear_iterator", env)} |->
       Let([t2 \in {set_size(t1, 0)} |->
         set_root(t2, NIL)])])

\* for (brbt_node i = begin; i < end; i++) node_free(tree, i);
RECURSIVE free_range(_, _, _, _)
free_range(t, i, end, env) ==
  IF Halted(t) \/ ~ULt(i, end) THEN t
  ELSE Let([t1 \in {node_free(t, i, env)} |->
       Let([j \in {Inc(i)} |->
         free_range(t1, j, end, env)])])

\* the while loop of brbt_destroy
RECURSIVE destroy_loop(_, _, _, _, _)
destroy_loop(t, begin, follower, env, fuel) ==
  IF Halted(t) \/ begin = NIL THEN t
  ELSE IF fuel = 0 THEN Undef(t, "loop")
  ELSE
    Let([end \in {IF follower = NIL THEN t.capacity ELSE follower} |->
    Let([t1 \in {free_range(t, begin, end, env)} |->
    Let([nf \in {IF follower = NIL THEN Ret(t1, 0) ELSE nextfree(t1, follower)} |->
      destroy_loop(nf.t, follower, nf.v, env, fuel - 1)])])])

brbt_destroy(t, env) ==
  Let([t1 \in {destroy_loop(t, 0, t.first_free, env, Fuel(t))} |->
    Call(t1, "free", 0)])

(***************************************************************************)
(* Observers used by the properties                                        *)
(***************************************************************************)
RECURSIVE reach(_, _, _)
reach(t, x, fuel) ==
  IF x = NIL \/ fuel = 0 \/ ~InArena(t, x) THEN {}
  ELSE {x} \cup reach(t, t.bk[x].left, fuel - 1) \cup reach(t, t.bk[x].right, fuel - 1)

\* the indices reachable from root through child links
Occupied(t) == reach(t, t.root, t.capacity + 1)

KeyAt(t, i) == t.ptr[i].key

BAD == -9

\* the indices met by an in-order walk from x, with BAD where the walk
\* leaves the arena, meets a slot that holds no node, or does not end
RECURSIVE walk(_, _, _)
walk(t, x, fuel) ==
  IF x = NIL THEN << >>
  ELSE IF fuel = 0 \/ ~InArena(t, x) THEN <<BAD>>
  ELSE IF t.bk[x].u.tag # "red" \/ t.ptr[x].key = UNINIT THEN <<BAD>>
  ELSE walk(t, t.bk[x].left, fuel - 1) \o <<x>> \o walk(t, t.bk[x].right, fuel - 1)

InOrder(t) == walk(t, t.root, t.capacity + 1)

NoRepeat(q) == \A i, j \in DOMAIN q : q[i] = q[j] => i = j

\* root leads to a binary tree of nodes: every public operation takes such
\* a tree; on anything else (a cycle, a shared or dangling link) the calls
\* are undefined and the run is not followed further
TreeShaped(t) ==
  \A q \in {InOrder(t)} : (\A i \in DOMAIN q : q[i] # BAD) /\ NoRepeat(q)

Operable(t) == ~Halted(t) /\ TreeShaped(t)

(***************************************************************************)
(* State machine: one tree, its caller-owned policy and type records, and  *)
(* the history the properties refer to.                                    *)
(*   amap : the abstract key -> value map run side by side                 *)
(*   last : the public call that has just returned (or was cut short),     *)
(*          its arguments, its result and the tree it was made on          *)
(*   hist : what has happened since brbt_create                            *)
(*          pure  - only inserts of keys not yet in the tree, no eviction  *)
(*          over  - an insert needed a slot the arena did not have         *)
(*          grows - the number of calls of the resize callback             *)
(*          dels  - the number of brbt_delete calls (at most MaxDel)       *)
(*          clears - the number of brbt_clear calls (at most MaxClear)     *)
(*          mins  - the number of brbt_delete_min calls (at most MaxMin)   *)
(*          miss  - a brbt_delete was given a key the tree did not hold    *)
(*          rets  - while pure, the keys inserted and the indices returned *)
(*          freed - the index the last brbt_delete of a present key        *)
(*                  released, until a slot is taken or released again      *)
(* A call is made when the caller is done with the previous one (Return).  *)
(***************************************************************************)
VARIABLES tree, policy, type, amap, last, hist

vars == <<tree, policy, type, amap, last, hist>>

NoCall == [op |-> "none", key |-> 0, val |-> 0, replace |-> FALSE,
           ret |-> UNSET, hit |-> FALSE, full |-> FALSE, victim |-> NIL,
           node |-> NIL, pre |-> brbt_create]

Init ==
  /\ tree = brbt_create
  /\ policy \in Policies
  /\ type \in Types
  /\ amap = << >>
  /\ last = NoCall
  /\ hist = [pure |-> TRUE, over |-> FALSE, grows |-> 0, dels |-> 0,
             clears |-> 0, mins |-> 0, miss |-> FALSE, rets |-> << >>,
             freed |-> NIL]

Idle == last.op = "none" /\ Operable(tree)

Full(t) == ~ULt(t.size, t.capacity)

\* what the value of an uninitialised local may be
Junk == {NIL} \cup 0..(MaxCap - 1)

MapPut(m, k, v) == [x \in (DOMAIN m) \cup {k} |-> IF x = k THEN v ELSE m[x]]

MapDel(m, k) == [x \in (DOMAIN m) \ {k} |-> m[x]]

\* brbt_insert(tree, &(k, v), replace); newcap, drawn from caps, is what the
\* resize callback returns and victim what the select callback returns, when
\* called
InsertGrowing(k, v, replace, caps) ==
  /\ Idle
  /\ \E hit \in {brbt_find(tree, k) # NIL} :
     \E full \in {~hit /\ Full(tree)} :
     \E newcap \in (IF full /\ policy.resize THEN caps ELSE {NIL}),
        victim \in (IF full /\ ~policy.resize /\ policy.select
                      THEN (IF tree.root = NIL THEN {NIL, 0} ELSE Occupied(tree))
                      ELSE {NIL}) :
     \E r \in { brbt_insert(tree, [key |-> k, val |-> v], replace,
                            [policy |-> policy, type |-> type,
                             newcap |-> newcap, victim |-> victim]) } :
     \E ret \in (IF Halted(r.t) THEN {UNSET}
                 ELSE IF r.v = UNSET THEN Junk ELSE {r.v}) :
     \E m1 \in { IF victim # NIL /\ InArena(tree, victim)
                        /\ KeyAt(tree, victim) \in DOMAIN amap
                   THEN MapDel(amap, KeyAt(tree, victim)) ELSE amap } :
       /\ tree' = r.t
       /\ amap' = IF k \in DOMAIN m1 /\ ~replace THEN m1 ELSE MapPut(m1, k, v)
       /\ last' = [op |-> "insert", key |-> k, val |-> v, replace |-> replace,
                   ret |-> ret, hit |-> hit, full |-> full, victim |-> victim,
                   node |-> NIL, pre |-> tree]
       /\ hist' = [hist EXCEPT
                     !.pure = @ /\ ~hit /\ victim = NIL,
                     !.over = @ \/ (full /\ (tree.capacity > 0 \/ ~policy.resize)),
                     !.grows = IF newcap # NIL THEN @ + 1 ELSE @,
                     !.freed = IF victim # NIL THEN NIL ELSE @,
                     !.rets = IF ~hist.pure \/ hit \/ victim # NIL THEN << >>
                              ELSE IF Halted(r.t) THEN @
                              ELSE Append(@, [key |-> k, idx |-> ret])]
  /\ UNCHANGED <<policy, type>>

\* brbt_insert under a resize callback that grows the arena by at least one
\* slot, up to MaxCap slots
Insert(k, v, replace) ==
  InsertGrowing(k, v, replace, (tree.capacity + 1)..MaxCap)

\* brbt_delete(tree, &k)
Delete(k) ==
  /\ Idle
  /\ hist.dels < MaxDel
  /\ tree' = brbt_delete(tree, k, [policy |-> policy, type |-> type,
                                   newcap |-> NIL, victim |-> NIL])
  /\ amap' = MapDel(amap, k)
  /\ last' = [NoCall EXCEPT !.op = "delete", !.key = k,
                            !.hit = (brbt_find(tree, k) # NIL), !.pre = tree]
  /\ hist' = [hist EXCEPT !.pure = FALSE, !.dels = @ + 1,
                           !.miss = @ \/ brbt_find(tree, k) = NIL, !.rets = << >>,
                           !.freed = IF brbt_find(tree, k) # NIL
                                       THEN brbt_find(tree, k) ELSE @]
  /\ UNCHANGED <<policy, type>>

\* the caller points the tree at another policy record
SetPolicy(p) ==
  /\ Idle
  /\ p # policy
  /\ policy' = p
  /\ UNCHANGED <<tree, type, amap, last, hist>>

\* the environment of a call that needs no slot
NoAlloc == [policy |-> policy, type |-> type, newcap |-> NIL, victim |-> NIL]

\* brbt_delete_min(tree, node)
DeleteMin(node) ==
  /\ Idle
  /\ hist.mins < MaxMin
  /\ tree' = brbt_delete_min(tree, node, NoAlloc)
  /\ amap' = IF DOMAIN amap = {} THEN amap
             ELSE MapDel(amap, CHOOSE k \in DOMAIN amap : \A j \in DOMAIN amap : k <= j)
  /\ last' = [NoCall EXCEPT !.op = "delete_min", !.node = node,
                            !.hit = (tree.root # NIL), !.pre = tree]
  /\ hist' = [hist EXCEPT !.pure = FALSE, !.mins = @ + 1, !.rets = << >>,
                           !.freed = NIL]
  /\ UNCHANGED <<policy, type>>

\* brbt_clear(tree)
Clear ==
  /\ Idle
  /\ hist.clears < MaxClear
  /\ tree' = brbt_clear(tree, NoAlloc)
  /\ amap' = << >>
  /\ last' = [NoCall EXCEPT !.op = "clear", !.pre = tree]
  /\ hist' = [hist EXCEPT !.pure = FALSE, !.clears = @ + 1, !.rets = << >>,
                           !.freed = NIL]
  /\ UNCHANGED <<policy, type>>

\* brbt_iterate(tree, visit, userdata) with a visitor of the caller
Iterate ==
  /\ Idle
  /\ tree' = brbt_iterate(tree, "visit", NoAlloc)
  /\ last' = [NoCall EXCEPT !.op = "iterate", !.pre = tree]
  /\ UNCHANGED <<policy, type, amap, hist>>

\* brbt_get(tree, idx); the result is the address of record idx
Get(idx) ==
  /\ Idle
  /\ tree' = brbt_get(tree, idx)
  /\ last' = [NoCall EXCEPT !.op = "get", !.node = idx,
                            !.ret = IF Halted(brbt_get(tree, idx)) THEN UNSET ELSE idx,
                            !.pre = tree]
  /\ UNCHANGED <<policy, type, amap, hist>>

\* brbt_minimum(tree, node)
Minimum(node) ==
  /\ Idle
  /\ \E r \in {brbt_minimum(tree, node)} :
       /\ tree' = r.t
       /\ last' = [NoCall EXCEPT !.op = "minimum", !.node = node,
                                 !.ret = IF Halted(r.t) THEN UNSET ELSE r.v,
                                 !.pre = tree]
  /\ UNCHANGED <<policy, type, amap, hist>>

\* brbt_destroy(tree); the tree is not used again
Destroy ==
  /\ Idle
  /\ tree' = brbt_destroy(tree, NoAlloc)
  /\ amap' = << >>
  /\ last' = [NoCall EXCEPT !.op = "destroy", !.pre = tree]
  /\ hist' = [hist EXCEPT !.pure = FALSE, !.rets = << >>, !.freed = NIL]
  /\ UNCHANGED <<policy, type>>

\* the caller is done with the result of the last call
Return ==
  /\ last.op \notin {"none", "destroy"}
  /\ last' = NoCall
  /\ tree' = [tree EXCEPT !.calls = << >>, !.seen = << >>]
  /\ hist' = [hist EXCEPT
                !.freed = IF last.op = "insert" /\ ~last.hit THEN NIL ELSE @]
  /\ UNCHANGED <<policy, type, amap>>

Next ==
  \/ \E k \in Keys, v \in Vals, replace \in BOOLEAN : Insert(k, v, replace)
  \/ \E k \in Keys : Delete(k)
  \/ \E p \in Policies : SetPolicy(p)
  \/ \E node \in {NIL} : DeleteMin(node)
  \/ Clear
  \/ Iterate
  \/ \E idx \in {NIL} \cup 0..MaxCap : Get(idx)
  \/ Destroy
  \/ Minimum(tree.root)
  \/ Return

Spec == Init /\ [][Next]_vars

StockPolicy ==
  [resize |-> TRUE, select |-> FALSE, insert_hook |-> FALSE, remove_hook |-> FALSE]

CachePolicy ==
  [resize |-> FALSE, select |-> TRUE, insert_hook |-> TRUE, remove_hook |-> TRUE]

\* insert-only runs under the stock policy
InitIns == Init /\ policy.resize /\ ~policy.select

NextIns ==
  \/ \E k \in Keys, v \in Vals, replace \in BOOLEAN : Insert(k, v, replace)
  \/ Return

SpecIns == InitIns /\ [][NextIns]_vars

\* inserts and deletes under the stock policy, with a destructor
InitDel == InitIns /\ type.deleter

NextDel ==
  \/ \E k \in Keys : brbt_find(tree, k) = NIL /\ Insert(k, 0, FALSE)
  \/ \E k \in Keys : Delete(k)
  \/ Return

SpecDel == InitDel /\ [][NextDel]_vars

\* a cache: the arena is grown once under the stock policy, then the caller
\* installs the eviction-only policy and goes on inserting
NextEvict ==
  \/ \E k \in Keys : brbt_find(tree, k) = NIL /\ Insert(k, 0, FALSE)
  \/ SetPolicy(CachePolicy)
  \/ Return

SpecEvict == InitDel /\ [][NextEvict]_vars

\* inserts, deletes of present keys and clears, walked by a visitor
NextWalk ==
  \/ \E k \in Keys : brbt_find(tree, k) = NIL /\ Insert(k, 0, FALSE)
  \/ \E k \in Keys : brbt_find(tree, k) # NIL /\ Delete(k)
  \/ Clear
  \/ Iterate
  \/ Return

SpecWalk == InitDel /\ [][NextWalk]_vars

\* inserts and deletes of present keys, and brbt_minimum from the root
NextLeast ==
  \/ \E k \in Keys : brbt_find(tree, k) = NIL /\ Insert(k, 0, FALSE)
  \/ \E k \in Keys : brbt_find(tree, k) # NIL /\ Delete(k)
  \/ Minimum(tree.root)
  \/ Return

SpecLeast == InitDel /\ [][NextLeast]_vars

\* the scenario: keys 5,3,8,1,4,7,9 inserted in that order with replace set,
\* into a fresh tree whose first growth makes room for all of them; then
\* delete(5); iterate at any point
Script == <<5, 3, 8, 1, 4, 7, 9>>

Done == Len(hist.rets)

NextScen ==
  \/ /\ Done < Len(Script) /\ hist.dels = 0
     /\ \E v \in Vals : InsertGrowing(Script[Done + 1], v, TRUE, Len(Script)..ScenCap)
  \/ Done = Len(Script) /\ hist.dels = 0 /\ Delete(5)
  \/ Iterate
  \/ Return

SpecScen == InitIns /\ [][NextScen]_vars

\* inserts of new keys under a policy with both resize and select, whose
\* resize callback may hand back the arena at the capacity it already has
InitStall == Init /\ policy.resize /\ policy.select /\ type.deleter

NextStall ==
  \/ \E k \in Keys, v \in Vals :
       /\ brbt_find(tree, k) = NIL
       /\ InsertGrowing(k, v, FALSE, tree.capacity..MaxCap)
  \/ Return

SpecStall == InitStall /\ [][NextStall]_vars

\* inserts under the policies that have an insert hook: first the one that
\* grows, then, once the caller switches, the one that evicts
InitHook == Init /\ policy.insert_hook /\ policy.resize

NextHook ==
  \/ \E k \in Keys, v \in Vals, replace \in BOOLEAN : Insert(k, v, replace)
  \/ SetPolicy(CachePolicy)
  \/ Return

SpecHook == InitHook /\ [][NextHook]_vars

\* inserts of any key, with and without replace, and deletes of present keys
NextSafe ==
  \/ \E k \in Keys, replace \in BOOLEAN : Insert(k, 0, replace)
  \/ \E k \in Keys : brbt_find(tree, k) # NIL /\ Delete(k)
  \/ Return

SpecSafe == InitDel /\ [][NextSafe]_vars

\* a sorted load followed by churn near capacity: inserts of new keys, in
\* ascending order until the first delete and in any order after it, into an
\* arena grown once to TallCap slots, and deletes of present keys while at
\* most one slot is free, over the keys 1..TallKey
NextTall ==
  \/ \E k \in 1..TallKey :
       /\ brbt_find(tree, k) = NIL
       /\ tree.capacity = 0 \/ ~Full(tree)
       /\ hist.dels = 0 => \A i \in DOMAIN hist.rets : hist.rets[i].key < k
       /\ InsertGrowing(k, 0, FALSE, {TallCap})
  \/ \E k \in 1..TallKey :
       /\ brbt_find(tree, k) # NIL
       /\ tree.size + 1 >= tree.capacity
       /\ Delete(k)
  \/ Return

SpecTall == InitDel /\ [][NextTall]_vars

\* a sorted load of new keys into an arena grown once to TallCap slots, then
\* deletes of present keys and inserts of present keys without replace
NextAgain ==
  \/ \E k \in 1..TallKey :
       /\ brbt_find(tree, k) = NIL
       /\ hist.pure
       /\ tree.capacity = 0 \/ ~Full(tree)
       /\ \A i \in DOMAIN hist.rets : hist.rets[i].key < k
       /\ InsertGrowing(k, 0, FALSE, {TallCap})
  \/ \E k \in 1..TallKey : brbt_find(tree, k) # NIL /\ Delete(k)
  \/ \E k \in 1..TallKey :
       brbt_find(tree, k) # NIL /\ InsertGrowing(k, 0, FALSE, {TallCap})
  \/ Return

SpecAgain == InitDel /\ [][NextAgain]_vars

\* inserts, clears and deletes of the minimum
NextMin ==
  \/ \E k \in Keys : brbt_find(tree, k) = NIL /\ Insert(k, 0, FALSE)
  \/ DeleteMin(NIL)
  \/ Clear
  \/ Return

SpecMin == InitDel /\ [][NextMin]_vars

\* inserts under any policy the caller installs
InitExhaust == Init /\ type.deleter

NextExhaust ==
  \/ \E k \in Keys : brbt_find(tree, k) = NIL /\ Insert(k, 0, FALSE)
  \/ \E p \in Policies : SetPolicy(p)
  \/ Return

SpecExhaust == InitExhaust /\ [][NextExhaust]_vars

\* inserts, and brbt_get of any index
NextGet ==
  \/ \E k \in Keys : brbt_find(tree, k) = NIL /\ Insert(k, 0, FALSE)
  \/ \E idx \in {NIL} \cup 0..MaxCap : Get(idx)
  \/ Return

SpecGet == InitDel /\ [][NextGet]_vars

\* a growing tree with a destructor and a remove hook, destroyed at some point
InitDestroy == Init /\ policy.resize /\ policy.remove_hook /\ type.deleter

NextDestroy ==
  \/ \E k \in Keys : brbt_find(tree, k) = NIL /\ Insert(k, 0, FALSE)
  \/ \E k \in Keys : brbt_find(tree, k) # NIL /\ Delete(k)
  \/ Destroy
  \/ Return

SpecDestroy == InitDestroy /\ [][NextDestroy]_vars

(***************************************************************************)
(* Left-leaning red-black shape of the tree under root                     *)
(***************************************************************************)
Red(t, x) == x # NIL /\ t.bk[x].u = [tag |-> "red", v |-> 1]

NoRedRight(t) == \A x \in Occupied(t) : ~Red(t, t.bk[x].right)

\* the numbers of black nodes on the paths from x down to a NIL link
RECURSIVE blacks(_, _, _)
blacks(t, x, fuel) ==
  IF x = NIL \/ fuel = 0 \/ ~InArena(t, x) THEN {0}
  ELSE { n + (IF Red(t, x) THEN 0 ELSE 1) :
           n \in blacks(t, t.bk[x].left, fuel - 1) \cup blacks(t, t.bk[x].right, fuel - 1) }

BlackBalanced(t) == Cardinality(blacks(t, t.root, t.capacity + 1)) = 1

LLRB(t) == TreeShaped(t) /\ NoRedRight(t) /\ BlackBalanced(t)

\* find(k) is the index of a record with key k and the value the map holds
\* for k, or NIL when the map has no k
Agrees(t, m) ==
  \A k \in Keys :
    LET f == brbt_find(t, k)
    IN IF k \in DOMAIN m
         THEN f # NIL /\ InArena(t, f) /\ t.ptr[f] = [key |-> k, val |-> m[k]]
         ELSE f = NIL

Completed(op) == last.op = op /\ ~Halted(tree)

(***************************************************************************)
(* Properties                                                              *)
(***************************************************************************)

\* C2: after every completed brbt_insert of an insert-only sequence on a
\* fresh tree, no node has a red right child and every path from root to a
\* NIL link has the same number of black nodes.
C2_InsertKeepsLLRB == Completed("insert") => LLRB(tree)

\* C2 witness: a completed insert has filled a four-slot arena, the tree
\* having a red node below a black one
C2_Witness ==
  /\ Completed("insert") /\ ~last.hit
  /\ tree.size = 4
  /\ \E x \in Occupied(tree) : Red(tree, x) /\ x # tree.root

\* C5: in a run of inserts of distinct keys into a fresh tree, find on each
\* inserted key returns the index brbt_insert returned for it, and the
\* record at that index is the inserted one.
C5_FindReturnsInsertIndex ==
  hist.pure =>
    \A i \in DOMAIN hist.rets :
      LET e == hist.rets[i]
      IN /\ brbt_find(tree, e.key) = e.idx
         /\ InArena(tree, e.idx)
         /\ tree.ptr[e.idx] = [key |-> e.key, val |-> amap[e.key]]

\* C5 witness: four distinct keys inserted, with both values, and rotated so
\* that the root is not the first node inserted
C5_Witness ==
  /\ hist.pure /\ Len(hist.rets) = 4
  /\ tree.root # hist.rets[1].idx
  /\ \E i, j \in DOMAIN hist.rets : amap[hist.rets[i].key] # amap[hist.rets[j].key]

\* C1: after each insert, or delete of a present key, on a tree that stays
\* within its capacity, find agrees with the abstract map: an index holding
\* the key and the map's value for a key of the map, NIL for any other key.
C1_AgreesWithMap == (~hist.over /\ ~hist.miss) => Agrees(tree, amap)

\* C3: after every completed brbt_delete of a present key, no node has a red
\* right child and every path from root to a NIL link has the same number of
\* black nodes.
C3_DeleteKeepsLLRB == (Completed("delete") /\ last.hit) => LLRB(tree)

\* C4: after brbt_delete of a present key, find of that key returns NIL,
\* size is one less, and every other key that was present is still found.
C4_DeleteRemovesExactlyKey ==
  (last.op = "delete" /\ last.hit) =>
    /\ brbt_find(tree, last.key) = NIL
    /\ tree.size = last.pre.size - 1
    /\ \A k \in Keys \ {last.key} :
         brbt_find(last.pre, k) # NIL => brbt_find(tree, k) \in Occupied(tree)

\* C6: under a growth-only policy, inserting distinct keys never invokes the
\* abort hook, and every key inserted before is found after each insert,
\* also past the capacity obtained by the first growth.
C6_GrowthNeverAborts ==
  (hist.pure /\ policy.resize /\ ~policy.select) =>
    /\ tree.abort = 0
    /\ \A i \in DOMAIN hist.rets : brbt_find(tree, hist.rets[i].key) # NIL

\* C7: on a full tree with an eviction-only policy, inserting a new key
\* leaves size equal to capacity, makes the key at the index returned by
\* select unfindable, and every other key that was present, and the new
\* key, are found.
C7_EvictionReplacesVictim ==
  (last.op = "insert" /\ last.victim # NIL /\ last.pre.capacity > 0) =>
    LET gone == KeyAt(last.pre, last.victim)
    IN /\ tree.size = tree.capacity
       /\ brbt_find(tree, gone) = NIL
       /\ brbt_find(tree, last.key) \in Occupied(tree)
       /\ \A k \in Keys \ {gone} :
            brbt_find(last.pre, k) # NIL => brbt_find(tree, k) \in Occupied(tree)

\* C8: brbt_delete of a key that is not in a non-empty tree changes nothing
\* (root, links, colours, size, free list, payloads) and does not invoke the
\* abort hook.
C8_DeleteAbsentIsNoOp ==
  (last.op = "delete" /\ ~last.hit /\ last.pre.root # NIL) =>
    [tree EXCEPT !.calls = << >>, !.seen = << >>] = last.pre

\* C9: brbt_insert with replace=false of a key already in the tree returns
\* the index find returns for that key.
C9_DuplicateReturnsIndex ==
  (Completed("insert") /\ last.hit /\ ~last.replace) =>
    last.ret = brbt_find(last.pre, last.key)

\* C10: the N-th insert of a run of inserts of distinct new keys into a fresh
\* tree returns N-1, for every N, also past the capacity obtained by the
\* first growth.
C10_IndicesCountUp ==
  (hist.pure /\ last.op = "insert") =>
    last.ret = Cardinality(DOMAIN amap) - 1

\* the indices the visitor was called with, in the order of the calls
Visited(t) == [i \in 1..Len(t.calls) |-> t.calls[i].n]

RECURSIVE freewalk(_, _, _)
freewalk(t, x, fuel) ==
  IF x = NIL \/ ~InArena(t, x) THEN << >>
  ELSE IF fuel = 0 THEN <<BAD>>
  ELSE IF t.bk[x].u.tag # "nf" THEN <<x>>
  ELSE <<x>> \o freewalk(t, t.bk[x].u.v, fuel - 1)

FreeList(t) == freewalk(t, t.first_free, t.capacity + 1)

\* the number of links (root, left, right) of the tree that hold index y
LinksTo(t, y) ==
  Cardinality({x \in Occupied(t) : t.bk[x].left = y})
    + Cardinality({x \in Occupied(t) : t.bk[x].right = y})
    + (IF t.root = y THEN 1 ELSE 0)

\* the tree under root and the free list split [0, capacity)
Partition(t) ==
  \A fl \in {FreeList(t)} :
    \A F \in {{fl[i] : i \in DOMAIN fl}}, T \in {Occupied(t)} :
      /\ NoRepeat(fl) /\ BAD \notin F
      /\ \A y \in T : LinksTo(t, y) = 1
      /\ T \cap F = {}
      /\ T \cup F = 0..(t.capacity - 1)

\* C12: after every completed operation every index in [0, capacity) is
\* either reachable from root through child links or reachable from
\* first_free through next_free links, never both and never neither, and no
\* index appears twice in the tree or twice on the free list.
C12_ArenaPartition == (last.op # "none" /\ ~Halted(tree)) => Partition(tree)

\* C13: after create and after every completed insert, delete, delete_min
\* and clear, root is NIL if and only if size is 0.
C13_RootNilIffEmpty == ~Halted(tree) => (tree.root = NIL <=> tree.size = 0)

\* C14: brbt_insert with replace=true of a key already in the tree
\* overwrites the stored record with the new one, invokes the value
\* destructor of the type (if it has one) once, on that slot and before the
\* overwrite, leaves size unchanged, and fires neither insert_hook nor
\* remove_hook.
C14_ReplaceOverwrites ==
  (last.op = "insert" /\ last.hit /\ last.replace) =>
    \A f \in {brbt_find(last.pre, last.key)} :
      /\ ~Halted(tree)
      /\ brbt_find(tree, last.key) = f
      /\ tree.ptr[f] = [key |-> last.key, val |-> last.val]
      /\ tree.size = last.pre.size
      /\ tree.calls = IF type.deleter THEN <<[f |-> "deleter", n |-> f]>> ELSE << >>

\* C15: brbt_insert with replace=false of a key already in the tree, once
\* or several times in a row, leaves size and the stored record of that key
\* unchanged and invokes neither the value destructor nor a policy hook.
C15_DuplicateLeavesRecord ==
  (last.op = "insert" /\ last.hit /\ ~last.replace) =>
    \A f \in {brbt_find(last.pre, last.key)} :
      /\ ~Halted(tree)
      /\ brbt_find(tree, last.key) = f
      /\ tree.ptr[f] = last.pre.ptr[f]
      /\ tree.size = last.pre.size
      /\ tree.calls = << >>

\* C15 witness: a duplicate insert with replace=false that carries another
\* value than the stored one, on a tree of three nodes or more
C15_Witness ==
  /\ Completed("insert") /\ last.hit /\ ~last.replace
  /\ tree.size >= 3
  /\ last.val # amap[last.key]

\* C16: an insert of a new key when size == capacity and the policy has
\* neither a resize nor a select callback invokes the abort hook, and when
\* the hook is invoked size, root, first_free, all links and all payloads
\* are as they were before the call.
C16_ExhaustionAborts ==
  (last.op = "insert" /\ last.full /\ ~policy.resize /\ ~policy.select) =>
    /\ tree.abort # 0 /\ tree.undef = ""
    /\ [tree EXCEPT !.abort = 0] = last.pre

\* C16 witness: the abort hook invoked from node_alloc on a full tree of
\* three nodes
C16_Witness ==
  /\ last.op = "insert" /\ last.full /\ ~policy.resize /\ ~policy.select
  /\ last.pre.size = 3 /\ last.pre.capacity = 3
  /\ tree.abort = 688

\* C17: brbt_get(tree, index) invokes the abort hook whenever index is NIL
\* or index >= capacity, and returns no record reference for such an index.
C17_GetChecksIndex ==
  (last.op = "get" /\ (last.node = NIL \/ ~InArena(last.pre, last.node))) =>
    tree.abort # 0 /\ last.ret = UNSET

\* the number of calls of callback f with argument n
Count(t, f, n) == Cardinality({j \in DOMAIN t.calls : t.calls[j] = [f |-> f, n |-> n]})

\* C18: brbt_destroy, in any state reached by inserts and deletes, invokes
\* the value destructor and the remove hook once for each slot that is
\* occupied at the time of the call and for no free slot, and afterwards
\* calls the policy's free callback once.
C18_DestroyFreesOccupied ==
  last.op = "destroy" =>
    /\ ~Halted(tree)
    /\ \A i \in 0..(last.pre.capacity - 1) :
         \A n \in {IF i \in Occupied(last.pre) THEN 1 ELSE 0} :
           Count(tree, "deleter", i) = n /\ Count(tree, "remove_hook", i) = n
    /\ Len(tree.calls) > 0
    /\ tree.calls[Len(tree.calls)].f = "free"
    /\ Cardinality({j \in DOMAIN tree.calls : tree.calls[j].f = "free"}) = 1

\* C19: after brbt_clear, in any state reached by inserts and deletes, size
\* is 0, root is NIL, every index in [0, capacity) is on the free list
\* exactly once, and the value destructor and the remove hook (where the
\* policy has one) have each been invoked once per previously occupied slot.
C19_ClearFreesEverySlot ==
  last.op = "clear" =>
    /\ ~Halted(tree)
    /\ tree.size = 0 /\ tree.root = NIL
    /\ \A fl \in {FreeList(tree)} :
         NoRepeat(fl) /\ {fl[i] : i \in DOMAIN fl} = 0..(tree.capacity - 1)
    /\ \A i \in 0..(last.pre.capacity - 1) :
         \A n \in {IF i \in Occupied(last.pre) THEN 1 ELSE 0} :
           /\ Count(tree, "deleter", i) = n
           /\ Count(tree, "remove_hook", i) = IF policy.remove_hook THEN n ELSE 0

\* the keys find reaches from root
Present(t) == {k \in Keys : brbt_find(t, k) # NIL}

\* C20: brbt_delete_min(tree, NIL) on a non-empty tree removes exactly the
\* node with the smallest key: that key is no longer found, every other key
\* that was present is still found from root, size is one less, and the
\* tree under root is a left-leaning red-black tree.
C20_DeleteMinRemovesSmallest ==
  (last.op = "delete_min" /\ last.node = NIL /\ last.pre.root # NIL) =>
    \A P \in {Present(last.pre)} :
      \A min \in {k \in P : \A j \in P : k <= j} :
        /\ ~Halted(tree)
        /\ Present(tree) = P \ {min}
        /\ tree.size = last.pre.size - 1
        /\ LLRB(tree)

VisitedKeys == [i \in 1..Len(tree.calls) |-> KeyAt(last.pre, tree.calls[i].n)]

\* C22: starting from a fresh tree, the inserts of keys 5,3,8,1,4,7,9 in that
\* order with replace set all complete, and brbt_iterate then visits keys
\* 1,3,4,5,7,8,9 in that order; after a following delete of 5 brbt_iterate
\* visits 1,3,4,7,8,9 and brbt_find(5) is NIL.
C22_Scenario ==
  /\ last.op \in {"insert", "delete", "iterate"} => ~Halted(tree)
  /\ (last.op = "iterate" /\ Done = Len(Script)) =>
        VisitedKeys = <<1, 3, 4, 5, 7, 8, 9>>
  /\ hist.dels = 1 => brbt_find(tree, 5) = NIL
  /\ (last.op = "iterate" /\ hist.dels = 1) =>
        VisitedKeys = <<1, 3, 4, 7, 8, 9>>

\* C22 witness: the walk after the seven inserts and the delete of 5, in an
\* arena of seven slots
C22_Witness ==
  /\ last.op = "iterate" /\ hist.dels = 1 /\ ~Halted(tree)
  /\ tree.capacity = Len(Script)
  /\ Len(tree.calls) = 6

\* C23: after every completed insert, delete, delete_min and clear, size
\* equals the number of distinct nodes reachable from root through child
\* links, and does not exceed capacity.
C23_SizeCountsReachable ==
  (last.op \in {"insert", "delete", "delete_min", "clear"} /\ ~Halted(tree)) =>
    /\ tree.size = Cardinality(Occupied(tree))
    /\ tree.size <= tree.capacity

\* C24: when the resize callback grows the arena from old_cap > 0 to
\* new_cap, the insert that triggered the growth completes and returns one
\* of the indices in [old_cap, new_cap), and every other index of that range
\* is reachable from first_free afterwards.
C24_GrowthChainsNewSlots ==
  (/\ last.op = "insert" /\ last.full /\ policy.resize
   /\ last.pre.capacity > 0 /\ tree.capacity > last.pre.capacity) =>
    /\ ~Halted(tree)
    /\ last.ret \in last.pre.capacity..(tree.capacity - 1)
    /\ \A fl \in {FreeList(tree)} :
         (last.pre.capacity..(tree.capacity - 1)) \ {last.ret}
           \subseteq {fl[i] : i \in DOMAIN fl}

\* C25: when the arena is full and the resize callback of a policy that also
\* has select returns the arena without growth, the insert does not invoke
\* the abort hook: select is called and the insert completes.
C25_NoGrowthFallsThrough ==
  (/\ last.op = "insert" /\ last.full /\ policy.resize /\ policy.select
   /\ last.pre.capacity > 0 /\ tree.capacity = last.pre.capacity) =>
    /\ tree.abort = 0
    /\ \E i \in DOMAIN tree.calls : tree.calls[i].f = "select"

\* C26: after a completed insert that evicts a victim chosen by select, an
\* in-order walk from root meets only slots that hold a node, meets no index
\* twice, and yields strictly ascending keys.
C26_EvictionKeepsSearchTree ==
  (/\ last.op = "insert" /\ last.victim # NIL /\ last.pre.capacity > 0
   /\ ~Halted(tree)) =>
    \A q \in {InOrder(tree)} :
      /\ \A i \in DOMAIN q : q[i] # BAD
      /\ NoRepeat(q)
      /\ \A i \in 1..(Len(q) - 1) : KeyAt(tree, q[i]) < KeyAt(tree, q[i + 1])

\* C27: brbt_delete on an empty tree (root NIL, size 0) leaves root equal
\* to NIL and size equal to 0.
C27_DeleteOnEmptyIsNoOp ==
  (last.op = "delete" /\ last.pre.root = NIL /\ last.pre.size = 0) =>
    /\ ~Halted(tree)
    /\ tree.root = NIL
    /\ tree.size = 0

\* C28: every brbt_delete of a present key completes and releases exactly the
\* slot that held the key: the deleter is called once on it, then the
\* remove hook once, both while the slot still holds the record and is not
\* on the free list; then the slot is pushed on the free list and size drops
\* by one. No deleter or hook call is made for any other slot.
C28_DeleteReleasesOneSlot ==
  (last.op = "delete" /\ last.hit) =>
    \A x \in {brbt_find(last.pre, last.key)} :
      /\ ~Halted(tree)
      /\ tree.calls = <<[f |-> "deleter", n |-> x], [f |-> "remove_hook", n |-> x]>>
      /\ \A i \in DOMAIN tree.seen :
           /\ tree.seen[i].rec.key = last.key
           /\ tree.seen[i].u.tag = "red"
           /\ ~tree.seen[i].head
      /\ tree.first_free = x
      /\ tree.bk[x].u = [tag |-> "nf", v |-> last.pre.first_free]
      /\ tree.size = last.pre.size - 1

\* C28 witness: the deleted key sat in the root, between two subtrees, and
\* the slot of its in-order successor is the root afterwards
C28_Witness ==
  /\ last.op = "delete" /\ last.hit /\ ~Halted(tree)
  /\ \E x \in {brbt_find(last.pre, last.key)} :
       /\ last.pre.root = x
       /\ last.pre.bk[x].left # NIL /\ last.pre.bk[x].right # NIL
       /\ Len(tree.calls) = 2
       /\ tree.root = brbt_minimum(last.pre, last.pre.bk[x].right).v

\* the positions in the call log at which the insert hook was called
HookCalls(t) == {i \in DOMAIN t.calls : t.calls[i].f = "insert_hook"}

\* C29: a completed insert of a key that was absent calls insert_hook exactly
\* once, with the index the insert returns, at a moment when that slot already
\* holds the inserted record and is coloured red; a completed insert of a
\* key that was present does not call insert_hook.
C29_InsertHookOncePerNewSlot ==
  (last.op = "insert" /\ ~Halted(tree) /\ policy.insert_hook) =>
    \A H \in {HookCalls(tree)} :
      IF last.hit THEN H = {}
      ELSE /\ Cardinality(H) = 1
           /\ \A i \in H :
                /\ tree.calls[i].n = last.ret
                /\ tree.seen[i].rec = [key |-> last.key, val |-> last.val]
                /\ tree.seen[i].u = [tag |-> "red", v |-> 1]

\* C29 witness: the hook fired for a third key, which landed in a slot that
\* held no node before
C29_Witness ==
  /\ last.op = "insert" /\ ~Halted(tree) /\ ~last.hit /\ last.victim = NIL
  /\ last.pre.size = 2 /\ last.ret = 2
  /\ Cardinality(HookCalls(tree)) = 1

\* C30: the index at which a key is found does not change while the key
\* stays in the tree: after a completed insert or delete of another key,
\* every key found before the call is found at the same index, and a newly
\* inserted key is found at the index its insert returned.
C30_IndexIsStable ==
  (last.op \in {"insert", "delete"} /\ ~Halted(tree)) =>
    /\ \A k \in Present(last.pre) \ {last.key} :
         brbt_find(tree, k) = brbt_find(last.pre, k)
    /\ (last.op = "insert" /\ ~last.hit) => brbt_find(tree, last.key) = last.ret

\* C31: when the type has no value destructor, brbt_insert with replace set
\* of a key already in the tree completes without invoking the abort hook
\* and without calling through the null destructor, overwrites the stored
\* record, and invokes no callback.
C31_ReplaceWithoutDestructor ==
  (last.op = "insert" /\ last.hit /\ last.replace /\ ~type.deleter) =>
    /\ tree.abort = 0
    /\ tree.undef = ""
    /\ tree.calls = << >>
    /\ \A f \in {brbt_find(last.pre, last.key)} :
         tree.ptr[f] = [key |-> last.key, val |-> last.val]

\* C32: brbt_destroy, in every state reached by inserts and deletes (the
\* fresh tree of capacity 0 and trees whose free list is not in index order
\* included), comes to an end and touches no bookkeeping slot at an index
\* outside [0, capacity).
C32_DestroyTerminatesInArena == last.op = "destroy" => tree.undef = ""

\* C33: in any sequence of inserts and of deletes of present keys in which
\* the arena is never asked to grow a second time, no insert and no delete
\* invokes the abort hook: no rotation finds a black child where it needs a
\* red one and no bookkeeping access is made with the NIL index.
C33_NoAbortWithinCapacity ==
  (last.op \in {"insert", "delete"} /\ ~hist.over /\ ~hist.miss) => tree.abort = 0

\* C33 witness: a second delete, of a node with two children, that completed
\* on a tree the first delete had left out of balance
C33_Witness ==
  /\ last.op = "delete" /\ last.hit /\ hist.dels = 2 /\ ~hist.over
  /\ ~Halted(tree) /\ ~LLRB(last.pre)
  /\ \E x \in {brbt_find(last.pre, last.key)} :
       last.pre.bk[x].left # NIL /\ last.pre.bk[x].right # NIL

\* the set a caller keeps by adding an index at insert_hook and dropping it
\* at remove_hook, started at L and run over the calls from position i on
RECURSIVE Hooked(_, _, _)
Hooked(L, calls, i) ==
  IF i > Len(calls) THEN L
  ELSE IF calls[i].f = "insert_hook" THEN Hooked(L \cup {calls[i].n}, calls, i + 1)
  ELSE IF calls[i].f = "remove_hook" THEN Hooked(L \ {calls[i].n}, calls, i + 1)
  ELSE Hooked(L, calls, i + 1)

\* the number of calls of callback f in the call log
Fired(t, f) == Cardinality({j \in DOMAIN t.calls : t.calls[j].f = f})

\* C34: under a policy with both hooks, every completed insert, delete,
\* delete_min and clear keeps the caller's books in step with the tree: if
\* before the call the hooked indices were the indices reachable from root
\* and their number was size, then after it the insert_hook firings minus
\* the remove_hook firings still equal size and the hooked indices are
\* still exactly the indices reachable from root.
C34_HooksMirrorTree ==
  (/\ last.op \in {"insert", "delete", "delete_min", "clear"}
   /\ policy.insert_hook /\ policy.remove_hook
   /\ ~Halted(tree)
   /\ last.pre.size = Cardinality(Occupied(last.pre))) =>
    /\ last.pre.size + Fired(tree, "insert_hook") - Fired(tree, "remove_hook")
         = tree.size
    /\ Hooked(Occupied(last.pre), tree.calls, 1) = Occupied(tree)

\* C36: after every completed insert and every completed delete of a
\* present key, no red node under root has a red child; in particular a red
\* root has no red left child.
C36_NoRedRed ==
  (/\ last.op \in {"insert", "delete"} /\ ~Halted(tree)
   /\ (last.op = "delete" => last.hit)) =>
    \A x \in Occupied(tree) :
      Red(tree, x) => (~Red(tree, tree.bk[x].left) /\ ~Red(tree, tree.bk[x].right))

\* the number of nodes on the longest path from x down to a NIL link
RECURSIVE depth(_, _, _)
depth(t, x, fuel) ==
  IF x = NIL \/ fuel = 0 \/ ~InArena(t, x) THEN 0
  ELSE 1 + (LET l == depth(t, t.bk[x].left, fuel - 1)
                r == depth(t, t.bk[x].right, fuel - 1)
            IN IF l > r THEN l ELSE r)

Height(t) == depth(t, t.root, t.capacity + 1)

\* C35: after every completed insert and delete of a present key the longest
\* path from root to a NIL link has at most 2*log2(size+1) nodes, that is
\* 2^height <= (size+1)^2, and the path is in any case shorter than the 32
\* entries of the stack of brbt_iterate.
C35_HeightIsLogarithmic ==
  (last.op \in {"insert", "delete"} /\ ~Halted(tree) /\ ~hist.miss) =>
    /\ 2 ^ Height(tree) <= (tree.size + 1) * (tree.size + 1)
    /\ Height(tree) <= StackDepth

\* C37: an insert of a key that is present, with replace = false, leaves the
\* whole tree as it was: root, links, colours, records, size, free list and
\* capacity.
C37_DuplicateInsertChangesNothing ==
  (last.op = "insert" /\ last.hit /\ ~last.replace) =>
    [tree EXCEPT !.calls = << >>, !.seen = << >>] = last.pre

\* C38: released slots are reused last in, first out: when brbt_delete of
\* a present key released index i and no other call released a slot since,
\* the next insert of a new key returns i and calls neither resize nor
\* select.
C38_LastFreedFirstReused ==
  (last.op = "insert" /\ ~last.hit /\ hist.freed # NIL) =>
    /\ ~Halted(tree)
    /\ last.ret = hist.freed
    /\ Fired(tree, "resize") = 0
    /\ Fired(tree, "select") = 0

C38_Witness ==
  /\ last.op = "insert" /\ ~last.hit /\ hist.freed # NIL
  /\ last.ret = hist.freed
  /\ last.pre.first_free = hist.freed
  /\ last.pre.bk[hist.freed].u.v # NIL

====
